---- MODULE Spec2Model ----
(***************************************************************************)
(* Model of redlib's thread normalisation core: the identity model         *)
(* (src/models/mod.rs), the archive adapter (src/bdfr.rs), the live        *)
(* adapter and tree query engine (src/post.rs).                            *)
(*                                                                         *)
(* Strings whose characters matter (fullnames, URLs, comment bodies) are   *)
(* sequences of one-character strings; strings that are only compared for  *)
(* equality are TLA+ strings.                                              *)
(***************************************************************************)
EXTENDS Integers, Sequences, FiniteSets, TLC

VARIABLES identity, archive, live, tree, built, extract, scan, site

vars == <<identity, archive, live, tree, built, extract, scan, site>>

\* A component that takes no part in a specification stays in this state.
Off == [pc |-> "off"]

----
\* Generic string helpers (Rust std semantics on character sequences).

RECURSIVE StrsUpTo(_, _)
\* All strings over alphabet `alpha` of length at most n.
StrsUpTo(alpha, n) ==
  IF n = 0 THEN {<<>>}
  ELSE LET shorter == StrsUpTo(alpha, n - 1)
       IN  shorter \cup {Append(s, c) : s \in shorter, c \in alpha}

\* Position of the first occurrence of character c in s, 0 when absent.
IndexOf(s, c) ==
  IF \E i \in 1..Len(s) : s[i] = c
  THEN CHOOSE i \in 1..Len(s) : s[i] = c /\ \A j \in 1..(i - 1) : s[j] # c
  ELSE 0

RECURSIVE Split(_, _)
\* str::split(c): n occurrences of c give n + 1 parts; "" gives one empty part.
Split(s, c) ==
  LET i == IndexOf(s, c)
  IN  IF i = 0 THEN <<s>>
      ELSE <<SubSeq(s, 1, i - 1)>> \o Split(SubSeq(s, i + 1, Len(s)), c)

\* Number of occurrences of character c in s.
Count(s, c) == Cardinality({i \in 1..Len(s) : s[i] = c})

RECURSIVE ForestsOfSize(_, _)
\* The ordered forests of exactly n nodes whose nodes, apart from `replies`,
\* are drawn from `profiles`.
ForestsOfSize(profiles, n) ==
  IF n = 0 THEN {<<>>}
  ELSE UNION {
         {<<[p EXCEPT !.replies = f]>> \o rest :
            p \in profiles, f \in ForestsOfSize(profiles, k - 1),
            rest \in ForestsOfSize(profiles, n - k)} : k \in 1..n}

\* The forests of at most n nodes.
ForestsUpTo(profiles, n) == UNION {ForestsOfSize(profiles, k) : k \in 0..n}

----
\* Number conversions of the Rust standard library, on character strings.

DigitChars == <<"0", "1", "2", "3", "4", "5", "6", "7", "8", "9">>
IsDigit(c) == \E i \in 1..10 : DigitChars[i] = c
DigitVal(c) == (CHOOSE i \in 1..10 : DigitChars[i] = c) - 1
AllDigits(s) == \A i \in 1..Len(s) : IsDigit(s[i])

RECURSIVE Atoi(_)
\* Value of a string of decimal digits.
Atoi(s) ==
  IF Len(s) = 0 THEN 0
  ELSE Atoi(SubSeq(s, 1, Len(s) - 1)) * 10 + DigitVal(s[Len(s)])

RECURSIVE Itoa(_)
\* i64::to_string
Itoa(n) ==
  IF n < 0 THEN <<"-">> \o Itoa(0 - n)
  ELSE IF n < 10 THEN <<DigitChars[n + 1]>>
  ELSE Itoa(n \div 10) \o <<DigitChars[(n % 10) + 1]>>

\* str::parse::<i64>(): an optional sign and at least one digit; anything else
\* is Err.  The bounded inputs stay far from the 64-bit range.
ParseI64(s) ==
  LET signed == Len(s) > 0 /\ s[1] \in {"+", "-"}
      digits == IF signed THEN SubSeq(s, 2, Len(s)) ELSE s
  IN  IF Len(digits) = 0 \/ ~AllDigits(digits) THEN [ok |-> FALSE, val |-> 0]
      ELSE [ok |-> TRUE, val |-> IF signed /\ s[1] = "-" THEN 0 - Atoi(digits) ELSE Atoi(digits)]

\* An f64 of the bounded domain: a sign and a magnitude counted in tenths
\* (the sign is kept apart because -0.0 prints as "-0").
F64(neg, tenths) == [neg |-> neg, tenths |-> tenths]
F64Zero == F64(FALSE, 0)

\* str::parse::<f64>() on the decimal forms without exponent: an optional
\* sign, digits, an optional '.' and digits, at least one digit in all.  Of
\* the fraction the first digit is kept (inputs carry at most one).
ParseF64(s) ==
  LET signed == Len(s) > 0 /\ s[1] \in {"+", "-"}
      body   == IF signed THEN SubSeq(s, 2, Len(s)) ELSE s
      dot    == IndexOf(body, ".")
      int    == IF dot = 0 THEN body ELSE SubSeq(body, 1, dot - 1)
      frac   == IF dot = 0 THEN <<>> ELSE SubSeq(body, dot + 1, Len(body))
  IN  IF Len(int) + Len(frac) = 0 \/ ~AllDigits(int) \/ ~AllDigits(frac)
      THEN [ok |-> FALSE, val |-> F64Zero]
      ELSE [ok |-> TRUE,
            val |-> F64(signed /\ s[1] = "-",
                        Atoi(int) * 10 + (IF Len(frac) = 0 THEN 0 ELSE DigitVal(frac[1])))]

\* f64::to_string: the shortest decimal form, without a trailing ".0".
F64ToString(v) ==
  (IF v.neg THEN <<"-">> ELSE <<>>)
    \o Itoa(v.tenths \div 10)
    \o (IF v.tenths % 10 = 0 THEN <<>> ELSE <<".", DigitChars[(v.tenths % 10) + 1]>>)

\* `f as u64` / `f as i64`: truncation, saturating at the bounds of the type.
F64AsU64(v) == IF v.neg THEN 0 ELSE v.tenths \div 10
F64AsI64(v) == IF v.neg THEN 0 - (v.tenths \div 10) ELSE v.tenths \div 10
I64AsF64(n) == IF n < 0 THEN F64(TRUE, (0 - n) * 10) ELSE F64(FALSE, n * 10)

\* unwrap_or on a parse result
UnwrapOr(r, default) == IF r.ok THEN r.val ELSE default

----
\* Identity model: src/models/mod.rs

ThingKinds ==
  {"Listing", "Comment", "Account", "Link", "Message", "Subreddit", "Award", "PromoCampaign"}

\* impl Display for ThingKind
KindTag(kind) ==
  CASE kind = "Listing"       -> <<"L", "i", "s", "t", "i", "n", "g">>
    [] kind = "Comment"       -> <<"t", "1">>
    [] kind = "Account"       -> <<"t", "2">>
    [] kind = "Link"          -> <<"t", "3">>
    [] kind = "Message"       -> <<"t", "4">>
    [] kind = "Subreddit"     -> <<"t", "5">>
    [] kind = "Award"         -> <<"t", "6">>
    [] kind = "PromoCampaign" -> <<"t", "8">>

\* Mutation: the last arm reads "t7", so the tag of PromoCampaign is unknown.
from_string_t7(kind) ==
  CASE kind = <<"L", "i", "s", "t", "i", "n", "g">> -> "Listing"
    [] kind = <<"t", "1">> -> "Comment"
    [] kind = <<"t", "2">> -> "Account"
    [] kind = <<"t", "3">> -> "Link"
    [] kind = <<"t", "4">> -> "Message"
    [] kind = <<"t", "5">> -> "Subreddit"
    [] kind = <<"t", "6">> -> "Award"
    [] kind = <<"t", "7">> -> "PromoCampaign"
    [] OTHER -> "None"

\* ThingKind::from_string; "None" is Option::None.
from_string(kind) ==
  CASE kind = <<"L", "i", "s", "t", "i", "n", "g">> -> "Listing"
    [] kind = <<"t", "1">> -> "Comment"
    [] kind = <<"t", "2">> -> "Account"
    [] kind = <<"t", "3">> -> "Link"
    [] kind = <<"t", "4">> -> "Message"
    [] kind = <<"t", "5">> -> "Subreddit"
    [] kind = <<"t", "6">> -> "Award"
    [] kind = <<"t", "8">> -> "PromoCampaign"
    [] OTHER -> "None"

\* Mutation: the part count is not checked (a string without '_' has one part).
from_fullname_unchecked(fullname) ==
  from_string(Split(fullname, "_")[1])

\* ThingKind::from_fullname
from_fullname(fullname) ==
  LET parts == Split(fullname, "_")
  IN  IF Len(parts) # 2 THEN "None" ELSE from_string(parts[1])

\* impl Display for Fullname: "{kind}_{id}"
FormatFullname(x) == KindTag(x.kind) \o <<"_">> \o x.id

MaxIdLen == 2
IdAlphabet == {"a", "_"}
\* Every constructible Fullname within the bound (id is any String).
Fullnames == [kind : ThingKinds, id : StrsUpTo(IdAlphabet, MaxIdLen)]

MaxSuffixLen == 3
SuffixAlphabet == {"_", "1"}
\* Leading parts of the strings handed to from_fullname: every tag, and
\* near misses of a tag.
TagCandidates ==
  {KindTag(k) : k \in ThingKinds}
    \cup {<<>>, <<"z", "z">>, <<"t">>, <<"t", "7">>, <<"T", "1">>, <<"t", "1", "1">>,
          <<"l", "i", "s", "t", "i", "n", "g">>}
FullnameInputs ==
  {p \o s : p \in TagCandidates, s \in StrsUpTo(SuffixAlphabet, MaxSuffixLen)}

IdentityInit == identity = [pc |-> "idle"]

\* A caller formats a Fullname value (to_string).
Format ==
  /\ identity.pc = "idle"
  /\ \E x \in Fullnames : identity' = [pc |-> "text", x |-> x, given |-> FALSE, text |-> FormatFullname(x),
                  parsed |-> "unset"]
  /\ UNCHANGED <<archive, live, tree, built, extract, scan, site>>

\* A caller holds an arbitrary string.
Receive ==
  /\ identity.pc = "idle"
  /\ \E s \in FullnameInputs : identity' = [pc |-> "text", x |-> [kind |-> "None", id |-> <<>>], given |-> TRUE, text |-> s,
                  parsed |-> "unset"]
  /\ UNCHANGED <<archive, live, tree, built, extract, scan, site>>

\* The string is parsed with ThingKind::from_fullname.
Parse ==
  /\ identity.pc = "text"
  /\ identity' = [identity EXCEPT !.pc = "parsed", !.parsed = from_fullname(identity.text)]
  /\ UNCHANGED <<archive, live, tree, built, extract, scan, site>>

IdentityNext ==
  \/ Format
  \/ Receive
  \/ Parse

InitIdentity ==
  IdentityInit /\ archive = Off /\ live = Off /\ tree = Off /\ built = Off /\ extract = Off
    /\ scan = Off /\ site = Off

SpecIdentity == InitIdentity /\ [][IdentityNext]_vars

\* The fullname of a formatted value has been parsed.
RoundTripDone == identity.pc = "parsed" /\ ~identity.given

\* C1 as stated: for every constructible Fullname x, ids holding '_' included,
\* from_fullname(format(x)) succeeds and is x's kind.
C1_RoundTripEveryId ==
  RoundTripDone => identity.parsed = identity.x.kind

\* C1 amended: for every Fullname x whose id holds no '_' (the empty id
\* included), from_fullname(format(x)) succeeds and is x's kind.
C1_RoundTripPlainId ==
  (RoundTripDone /\ Count(identity.x.id, "_") = 0) => identity.parsed = identity.x.kind

\* A value with a non-empty plain id went through format and parse.
C1_Witness ==
  /\ RoundTripDone
  /\ identity.x = [kind |-> "PromoCampaign", id |-> <<"a", "a">>]
  /\ identity.parsed = "PromoCampaign"

\* The strings from_fullname accepts, stated without split: a recognized tag,
\* one '_', and a rest that holds no further '_'.
WellFormedFullname(s) ==
  /\ Count(s, "_") = 1
  /\ \E k \in ThingKinds : SubSeq(s, 1, IndexOf(s, "_") - 1) = KindTag(k)

\* C2: from_fullname returns None for every string that has not exactly one
\* '_' or whose part before the '_' is no kind tag, and returns the kind of
\* that tag for every other string; it has no other outcome (no panic).
C2_ParseTotalAndStrict ==
  identity.pc = "parsed" =>
    /\ identity.parsed \in ThingKinds \cup {"None"}
    /\ (identity.parsed # "None") = WellFormedFullname(identity.text)
    /\ identity.parsed # "None" =>
          KindTag(identity.parsed) = SubSeq(identity.text, 1, IndexOf(identity.text, "_") - 1)

\* A recognized tag followed by two separators is refused.
C2_Witness ==
  /\ identity.pc = "parsed" /\ identity.given
  /\ identity.text = <<"t", "1", "_", "1", "_">>
  /\ identity.parsed = "None"

----
\* Archive adapter: src/bdfr.rs

\* Option<String>
Some(v) == [some |-> TRUE, val |-> v]
None == [some |-> FALSE, val |-> ""]

\* utils::format_selftext, the selftext-formatting step: it renders source
\* text and leaves text that is already rendered as it is.
format_selftext(text) ==
  CASE text = "hello *w*" -> "<p>hello <em>w</em></p>"
    [] text = "plain"     -> "<p>plain</p>"
    [] OTHER              -> text

RECURSIVE from_comment(_)
\* CommentArchiveEntry::from_comment
from_comment(comment) ==
  [author        |-> comment.author.name,
   id            |-> comment.id,
   score         |-> UnwrapOr(ParseI64(comment.score[1]), 0),
   author_flair  |-> Some(comment.author.flair.text),
   submission    |-> comment.parent_id,
   stickied      |-> comment.highlighted,
   body          |-> comment.body,
   is_submitter  |-> comment.post_author = comment.author.name,
   distinguished |-> Some(comment.author.distinguished),
   created_utc   |-> UnwrapOr(ParseF64(comment.created), F64Zero),
   parent_id     |-> comment.parent_id,
   replies       |-> [i \in 1..Len(comment.replies) |-> from_comment(comment.replies[i])]]

\* SubmissionArchiveEntry::from_post
from_post(post, comments) ==
  [title           |-> post.title,
   name            |-> post.id,
   url             |-> post.ws_url,
   selftext        |-> post.body,
   score           |-> UnwrapOr(ParseI64(post.score[1]), 0),
   upvote_ratio    |-> I64AsF64(post.upvote_ratio),
   permalink       |-> post.permalink,
   id              |-> post.id,
   author          |-> post.author.name,
   link_flair_text |-> post.flair.text,
   num_comments    |-> Len(comments),
   over_18         |-> post.flags.nsfw,
   spoiler         |-> post.flags.spoiler,
   pinned          |-> post.flags.stickied,
   locked          |-> FALSE,
   distinguished   |-> Some(post.author.distinguished),
   created_utc     |-> UnwrapOr(ParseF64(post.created), F64Zero),
   comments        |-> [i \in 1..Len(comments) |-> from_comment(comments[i])]]

\* The Flair and Author values the archive adapter builds.
ArchiveFlair(text) ==
  [text |-> text, flair_parts |-> <<>>, background_color |-> "", foreground_color |-> ""]
ArchiveMedia(entry) ==
  [url |-> entry.url, alt_url |-> entry.url, width |-> 0, height |-> 0,
   poster |-> entry.author, download_name |-> "asdfasdfsd"]

\* Mutation: the stickied flag is read from `spoiler` (a copy slip).
to_post_stickied_from_spoiler(entry) ==
  [title          |-> entry.title,
   ws_url         |-> entry.url,
   body           |-> format_selftext(entry.selftext),
   score          |-> <<Itoa(entry.score), "">>,
   upvote_ratio   |-> F64AsI64(entry.upvote_ratio),
   permalink      |-> entry.permalink,
   id             |-> entry.id,
   community      |-> "",
   author         |-> [name |-> entry.author, flair |-> ArchiveFlair(""), distinguished |-> ""],
   link_title     |-> entry.link_flair_text,
   post_type      |-> "link",
   flair          |-> ArchiveFlair(entry.link_flair_text),
   flags          |-> [nsfw |-> entry.over_18, spoiler |-> entry.spoiler, stickied |-> entry.spoiler],
   thumbnail      |-> ArchiveMedia(entry),
   media          |-> ArchiveMedia(entry),
   domain         |-> "",
   rel_time       |-> F64ToString(entry.created_utc),
   created        |-> F64ToString(entry.created_utc),
   created_ts     |-> F64AsU64(entry.created_utc),
   num_duplicates |-> 0,
   nsfw           |-> entry.over_18]

\* SubmissionArchiveEntry::to_post (it returns Ok in every case)
to_post(entry) ==
  [title          |-> entry.title,
   ws_url         |-> entry.url,
   body           |-> format_selftext(entry.selftext),
   score          |-> <<Itoa(entry.score), "">>,
   upvote_ratio   |-> F64AsI64(entry.upvote_ratio),
   permalink      |-> entry.permalink,
   id             |-> entry.id,
   community      |-> "",
   author         |-> [name |-> entry.author, flair |-> ArchiveFlair(""), distinguished |-> ""],
   link_title     |-> entry.link_flair_text,
   post_type      |-> "link",
   flair          |-> ArchiveFlair(entry.link_flair_text),
   flags          |-> [nsfw |-> entry.over_18, spoiler |-> entry.spoiler, stickied |-> entry.pinned],
   thumbnail      |-> ArchiveMedia(entry),
   media          |-> ArchiveMedia(entry),
   domain         |-> "",
   rel_time       |-> F64ToString(entry.created_utc),
   created        |-> F64ToString(entry.created_utc),
   created_ts     |-> F64AsU64(entry.created_utc),
   num_duplicates |-> 0,
   nsfw           |-> entry.over_18]

RECURSIVE to_comment_panics(_)
\* Whether CommentArchiveEntry::to_comment panics: the expect() on the parsed
\* parent_id fails for this record or, through the recursion of line 212, for
\* one of its replies.
to_comment_panics(entry) ==
  \/ from_fullname(entry.parent_id) = "None"
  \/ \E i \in 1..Len(entry.replies) : to_comment_panics(entry.replies[i])

RECURSIVE to_comment(_)
\* CommentArchiveEntry::to_comment, where it does not panic
to_comment(entry) ==
  [id          |-> entry.id,
   kind        |-> KindTag("Comment"),
   parent_id   |-> entry.parent_id,
   parent_kind |-> KindTag(from_fullname(entry.parent_id)),
   post_link   |-> "",
   post_author |-> IF entry.is_submitter THEN "true" ELSE "false",
   body        |-> entry.body,
   author      |-> [name |-> entry.author,
                    flair |-> ArchiveFlair(IF entry.author_flair.some THEN entry.author_flair.val ELSE ""),
                    distinguished |-> IF entry.distinguished.some THEN entry.distinguished.val ELSE ""],
   score       |-> <<Itoa(entry.score), "">>,
   rel_time    |-> F64ToString(entry.created_utc),
   created     |-> F64ToString(entry.created_utc),
   edited      |-> <<"", "">>,
   replies     |-> [i \in 1..Len(entry.replies) |-> to_comment(entry.replies[i])],
   highlighted |-> entry.stickied,
   awards      |-> <<>>,
   collapsed   |-> FALSE,
   is_filtered |-> FALSE,
   more_count  |-> 0]

\* to_comments
to_comments(entries) == [i \in 1..Len(entries) |-> to_comment(entries[i])]
to_comments_panics(entries) == \E i \in 1..Len(entries) : to_comment_panics(entries[i])

\* Inputs of the archive adapter.

MaxArchiveNodes == 2

BasePost ==
  [title |-> "Title", ws_url |-> "https://r/p1", body |-> "<p>plain</p>",
   score |-> <<<<"4", "2">>, "">>, upvote_ratio |-> 1, permalink |-> "/r/s/p1", id |-> "p1",
   community |-> "", author |-> [name |-> "alice", flair |-> ArchiveFlair(""), distinguished |-> ""],
   link_title |-> "", post_type |-> "link", flair |-> ArchiveFlair(""),
   flags |-> [nsfw |-> FALSE, spoiler |-> FALSE, stickied |-> FALSE],
   thumbnail |-> [url |-> "", alt_url |-> "", width |-> 0, height |-> 0, poster |-> "", download_name |-> ""],
   media |-> [url |-> "", alt_url |-> "", width |-> 0, height |-> 0, poster |-> "", download_name |-> ""],
   domain |-> "", rel_time |-> <<"1", "6", "0", "0">>, created |-> <<"1", "6", "0", "0">>,
   created_ts |-> 1600, num_duplicates |-> 0, nsfw |-> FALSE]

\* Score display strings: what to_post writes, and what the live path writes
\* (abbreviated, signed, padded or empty).
ScoreStrings ==
  {<<"4", "2">>, <<"-", "7">>, <<"0">>, <<"1", ".", "2", "k">>, <<"+", "5">>, <<"0", "7">>, <<>>}
\* Creation-time strings: what to_post writes, and a formatted date.
CreatedStrings ==
  {<<"1", "6", "0", "0">>, <<"1", "6", "0", "0", ".", "5">>, <<"0">>, <<"S", "e", "p", " ", "1", "3">>}
SelftextStrings == {"hello *w*", "<p>hello <em>w</em></p>", "<p>plain</p>"}

PostInputs ==
  {[BasePost EXCEPT !.score = <<sc, "">>, !.created = cr, !.body = b,
                     !.rel_time = IF relative THEN <<"2", "y">> ELSE cr] :
     sc \in ScoreStrings, cr \in CreatedStrings, relative \in BOOLEAN, b \in SelftextStrings}
  \cup {[BasePost EXCEPT !.score = <<<<"4", "2">>, "Hidden">>]}
  \cup {[BasePost EXCEPT !.flags = [nsfw |-> n, spoiler |-> sp, stickied |-> st], !.nsfw = n,
                         !.author.name = a, !.flair.text = ft] :
          n \in BOOLEAN, sp \in BOOLEAN, st \in BOOLEAN, a \in {"alice", "bob"}, ft \in {"", "News"}}

BaseComment ==
  [id |-> "c1", kind |-> KindTag("Comment"), parent_id |-> <<"t", "3", "_", "p">>,
   parent_kind |-> KindTag("Link"), post_link |-> "", post_author |-> "false", body |-> "first",
   author |-> [name |-> "alice", flair |-> ArchiveFlair(""), distinguished |-> ""],
   score |-> <<<<"4", "2">>, "">>, rel_time |-> <<"1", "6", "0", "0">>, created |-> <<"1", "6", "0", "0">>,
   edited |-> <<"", "">>, replies |-> <<>>, highlighted |-> FALSE, awards |-> <<>>,
   collapsed |-> FALSE, is_filtered |-> FALSE, more_count |-> 0]

\* Comments as to_comment builds them, and as the live path builds them
\* (parent id without its kind tag, abbreviated score, formatted date).
CommentProfiles ==
  {BaseComment,
   [BaseComment EXCEPT !.id = "c2", !.parent_id = <<"t", "1", "_", "c">>, !.parent_kind = KindTag("Comment"),
                       !.body = "second", !.author.name = "bob", !.author.flair.text = "Mod",
                       !.score = <<<<"-", "7">>, "">>, !.highlighted = TRUE,
                       !.rel_time = <<"1", "6", "0", "0", ".", "5">>,
                       !.created = <<"1", "6", "0", "0", ".", "5">>],
   [BaseComment EXCEPT !.id = "c3", !.parent_id = <<"p">>, !.post_link = "/r/s/p1", !.post_author = "alice",
                       !.body = "third"],
   [BaseComment EXCEPT !.id = "c4", !.score = <<<<"1", ".", "2", "k">>, "">>, !.body = "fourth",
                       !.rel_time = <<"2", "y">>, !.created = <<"S", "e", "p", " ", "1", "3">>]}

CommentInputs == ForestsUpTo(CommentProfiles, MaxArchiveNodes)

BaseReply ==
  [author |-> "alice", id |-> "c1", score |-> 5, author_flair |-> None, submission |-> "p1",
   stickied |-> FALSE, body |-> "first", is_submitter |-> FALSE, distinguished |-> None,
   created_utc |-> F64(FALSE, 16000), parent_id |-> <<"t", "3", "_", "p">>, replies |-> <<>>]

\* Reply records of an archive file: well-formed parent ids, a parent id
\* without separator and one with an unknown tag.
ReplyProfiles ==
  {BaseReply,
   [BaseReply EXCEPT !.id = "c2", !.author = "bob", !.score = -3, !.author_flair = Some("Mod"),
                     !.stickied = TRUE, !.is_submitter = TRUE, !.distinguished = Some("moderator"),
                     !.created_utc = F64(FALSE, 16005), !.parent_id = <<"t", "1", "_", "c">>],
   [BaseReply EXCEPT !.id = "c3", !.parent_id = <<"c">>],
   [BaseReply EXCEPT !.id = "c4", !.parent_id = <<"z", "z", "_", "c">>]}

BaseSubmission ==
  [title |-> "Title", name |-> "t3_p1", url |-> "https://r/p1", selftext |-> "plain", score |-> 42,
   upvote_ratio |-> F64(FALSE, 9), permalink |-> "/r/s/p1", id |-> "p1", author |-> "alice",
   link_flair_text |-> "", num_comments |-> 0, over_18 |-> FALSE, spoiler |-> FALSE, pinned |-> FALSE,
   locked |-> FALSE, distinguished |-> None, created_utc |-> F64(FALSE, 16000), comments |-> <<>>]

SubmissionInputs ==
  {[BaseSubmission EXCEPT !.selftext = t, !.score = sc, !.over_18 = n, !.comments = rs] :
     t \in {"plain", "hello *w*"}, sc \in {42, -7}, n \in BOOLEAN,
     rs \in ForestsUpTo(ReplyProfiles, MaxArchiveNodes)}

ArchiveInit == archive = [pc |-> "idle"]

\* A caller holds canonical values (built by either adapter).
Construct ==
  /\ archive.pc = "idle"
  /\ \E post \in PostInputs, comments \in CommentInputs :
       archive' = [pc |-> "canonical", post |-> post, comments |-> comments, encoded |-> FALSE]
  /\ UNCHANGED <<identity, live, tree, built, extract, scan, site>>

\* An archive file has been deserialized into a SubmissionArchiveEntry.
Load ==
  /\ archive.pc = "idle"
  /\ \E entry \in SubmissionInputs : archive' = [pc |-> "record", entry |-> entry, encoded |-> FALSE]
  /\ UNCHANGED <<identity, live, tree, built, extract, scan, site>>

\* SubmissionArchiveEntry::from_post on the canonical values held.
Encode ==
  /\ archive.pc \in {"canonical", "decoded"}
  /\ ~archive.encoded
  /\ archive' = [pc |-> "record", entry |-> from_post(archive.post, archive.comments),
                 encoded |-> TRUE, source |-> [post |-> archive.post, comments |-> archive.comments]]
  /\ UNCHANGED <<identity, live, tree, built, extract, scan, site>>

\* to_post and to_comments on the record held (create_post, template()).
Decode ==
  /\ archive.pc = "record"
  /\ IF to_comments_panics(archive.entry.comments)
     THEN archive' = [archive EXCEPT !.pc = "panicked"]
     ELSE archive' = [pc |-> "decoded", entry |-> archive.entry, encoded |-> archive.encoded,
                      source |-> IF archive.encoded THEN archive.source ELSE [post |-> "none"],
                      post |-> to_post(archive.entry), comments |-> to_comments(archive.entry.comments)]
  /\ UNCHANGED <<identity, live, tree, built, extract, scan, site>>

ArchiveNext ==
  \/ Construct
  \/ Load
  \/ Encode
  \/ Decode

InitArchive ==
  ArchiveInit /\ identity = Off /\ live = Off /\ tree = Off /\ built = Off /\ extract = Off
    /\ scan = Off /\ site = Off

SpecArchive == InitArchive /\ [][ArchiveNext]_vars

\* The decimal strings i64::to_string writes.
CanonicalInt(s) ==
  LET neg    == Len(s) > 0 /\ s[1] = "-"
      digits == IF neg THEN SubSeq(s, 2, Len(s)) ELSE s
  IN  /\ Len(digits) > 0 /\ AllDigits(digits)
      /\ Len(digits) > 1 => digits[1] # "0"
      /\ ~(neg /\ digits = <<"0">>)

\* The decimal strings f64::to_string writes (within one fraction digit).
CanonicalF64(s) ==
  LET neg  == Len(s) > 0 /\ s[1] = "-"
      body == IF neg THEN SubSeq(s, 2, Len(s)) ELSE s
      dot  == IndexOf(body, ".")
      int  == IF dot = 0 THEN body ELSE SubSeq(body, 1, dot - 1)
      frac == IF dot = 0 THEN <<>> ELSE SubSeq(body, dot + 1, Len(body))
  IN  /\ Len(int) > 0 /\ AllDigits(int) /\ (Len(int) > 1 => int[1] # "0")
      /\ dot # 0 => (Len(frac) = 1 /\ IsDigit(frac[1]) /\ frac[1] # "0")

RECURSIVE CommentRepresentable(_)
\* A Comment built purely from fields the reply schema represents.
CommentRepresentable(c) ==
  /\ CanonicalInt(c.score[1]) /\ c.score[2] = ""
  /\ CanonicalF64(c.created) /\ c.rel_time = c.created
  /\ WellFormedFullname(c.parent_id)
  /\ \A i \in 1..Len(c.replies) : CommentRepresentable(c.replies[i])

\* A Post and Comment list built purely from archival-representable fields:
\* scores and timestamps are the plain numbers the schema stores, the body is
\* rendered text, parent ids are fullnames.
ArchivalRepresentable(post, comments) ==
  /\ CanonicalInt(post.score[1]) /\ post.score[2] = ""
  /\ CanonicalF64(post.created) /\ post.rel_time = post.created
  /\ post.body \in {"<p>hello <em>w</em></p>", "<p>plain</p>"}
  /\ \A i \in 1..Len(comments) : CommentRepresentable(comments[i])

\* The fields of a Post that the submission schema carries.
PostCarried(post) ==
  [title |-> post.title, body |-> post.body, score |-> post.score, permalink |-> post.permalink,
   id |-> post.id, author |-> post.author.name, flair |-> post.flair.text,
   nsfw |-> post.flags.nsfw, spoiler |-> post.flags.spoiler, stickied |-> post.flags.stickied,
   created |-> post.created, rel_time |-> post.rel_time]

RECURSIVE CommentCarried(_)
\* The fields of a Comment that the reply schema carries, with its reply tree.
CommentCarried(c) ==
  [id |-> c.id, body |-> c.body, score |-> c.score, author |-> c.author.name,
   flair |-> c.author.flair.text, created |-> c.created, rel_time |-> c.rel_time,
   replies |-> [i \in 1..Len(c.replies) |-> CommentCarried(c.replies[i])]]

CommentsCarried(comments) == [i \in 1..Len(comments) |-> CommentCarried(comments[i])]

\* Encoded canonical values have been decoded (or the decoding has panicked).
ArchiveRoundTripDone == archive.pc \in {"decoded", "panicked"} /\ archive.encoded

RECURSIVE HasMalformedParent(_)
\* Some reply record, at any depth, carries a parent_id that is no fullname.
HasMalformedParent(entries) ==
  \E i \in 1..Len(entries) :
    ~WellFormedFullname(entries[i].parent_id) \/ HasMalformedParent(entries[i].replies)

RECURSIVE ParentKindsParsed(_)
\* Every decoded Comment carries the kind tag its parent_id starts with.
ParentKindsParsed(comments) ==
  \A i \in 1..Len(comments) :
    /\ comments[i].parent_kind
         = SubSeq(comments[i].parent_id, 1, IndexOf(comments[i].parent_id, "_") - 1)
    /\ ParentKindsParsed(comments[i].replies)

\* C4: decoding a reply record whose parent_id (at any depth) is no well-formed
\* fullname ends in an explicit decode error and never in a panic; decoding
\* well-formed records gives every Comment the kind tag parsed from parent_id.
C4_MalformedParentIsDecodeError ==
  archive.pc \in {"decoded", "panicked", "decode_error"} =>
    /\ archive.pc # "panicked"
    /\ HasMalformedParent(archive.entry.comments) => archive.pc = "decode_error"
    /\ archive.pc = "decoded" => ParentKindsParsed(archive.comments)

----
\* Live adapter and tree query engine: src/post.rs

\* s[i..] starts with pat.
StartsAt(s, pat, i) == i + Len(pat) - 1 <= Len(s) /\ SubSeq(s, i, i + Len(pat) - 1) = pat

\* str::contains
Contains(s, pat) == \E i \in 1..(Len(s) + 1) : StartsAt(s, pat, i)

\* char::to_lowercase on the letters the inputs use.
LowerChar(c) ==
  CASE c = "A" -> "a" [] c = "B" -> "b" [] c = "N" -> "n" [] OTHER -> c

\* str::to_lowercase
to_lowercase(s) == [i \in 1..Len(s) |-> LowerChar(s[i])]

\* serde_json::Value
JNull == [t |-> "null"]
JStr(s) == [t |-> "string", v |-> s]
JInt(n) == [t |-> "int", v |-> n]
JFloat(f) == [t |-> "float", v |-> f]
JBool(b) == [t |-> "bool", v |-> b]
JArray(items) == [t |-> "array", v |-> items]
\* An object holding a listing: {"data": {"children": children}}.
JListing(children) == [t |-> "object", children |-> children]

is_object(j) == j.t = "object"
\* .as_str().unwrap_or_default()
as_str(j) == IF j.t = "string" THEN j.v ELSE <<>>
\* .as_bool().unwrap_or_default()
as_bool(j) == IF j.t = "bool" THEN j.v ELSE FALSE
\* .as_i64().unwrap_or(0)
as_i64(j) == IF j.t = "int" THEN j.v ELSE 0
\* .as_f64(): Some for every JSON number
is_number(j) == j.t \in {"int", "float"}
\* json["data"]["children"].as_array().map_or(Vec::new(), to_owned); indexing a
\* value that is no object yields Null.
children_of(j) ==
  IF is_object(j) /\ j.children.t = "array" THEN j.children.v ELSE <<>>

\* utils::val: comment["data"][key].as_str().unwrap_or_default()
val(comment, key) == as_str(comment.data[key])

DELETED == <<"[", "d", "e", "l", "e", "t", "e", "d", "]">>
REMOVED == <<"[", "r", "e", "m", "o", "v", "e", "d", "]">>
REMOVED_BY_REDDIT ==
  <<"[", " ", "R", "e", "m", "o", "v", "e", "d", " ", "b", "y", " ", "R", "e", "d", "d",
    "i", "t", " ", "]">>
MODERATOR == <<"m", "o", "d", "e", "r", "a", "t", "o", "r">>

\* config::DEFAULT_PUSHSHIFT_FRONTEND
DEFAULT_PUSHSHIFT_FRONTEND ==
  <<"u", "n", "d", "e", "l", "e", "t", "e", ".", "p", "u", "l", "l", "p", "u", "s", "h",
    ".", "i", "o">>

\* The fragment that stands in for a removed comment (line 206).
RemovedPlaceholder(frontend, post_link, id) ==
  <<"<", "d", "i", "v", " ", "c", "l", "a", "s", "s", "=", "\"", "m", "d", "\"", ">", "<",
    "p", ">", "[", "r", "e", "m", "o", "v", "e", "d", "]", " ", "em-dash", " ", "<", "a",
    " ", "h", "r", "e", "f", "=", "\"", "h", "t", "t", "p", "s", ":", "/", "/">>
    \o frontend \o post_link \o id \o
  <<"\"", ">", "v", "i", "e", "w", " ", "r", "e", "m", "o", "v", "e", "d", " ", "c", "o",
    "m", "m", "e", "n", "t", "<", "/", "a", ">", "<", "/", "p", ">", "<", "/", "d", "i",
    "v", ">">>

\* The anchor text that only the placeholder carries.
VIEW_REMOVED_COMMENT ==
  <<"v", "i", "e", "w", " ", "r", "e", "m", "o", "v", "e", "d", " ", "c", "o", "m", "m",
    "e", "n", "t">>

RECURSIVE rewrite_emotes(_, _)
\* utils::rewrite_emotes, the emote-rewriting step: without media metadata
\* the html is returned as it is; with it, every emote reference (the
\* character ":") becomes an image element.
rewrite_emotes(media_metadata, html) ==
  IF ~is_object(media_metadata) \/ Len(html) = 0 THEN html
  ELSE (IF html[1] = ":" THEN <<"<", "i", "m", "g", ">">> ELSE <<html[1]>>)
         \o rewrite_emotes(media_metadata, SubSeq(html, 2, Len(html)))

\* utils::format_num: the number abbreviated to one decimal from a thousand
\* on, and the plain number.
format_num(num) ==
  LET abs == IF num < 0 THEN 0 - num ELSE num
  IN  IF abs >= 1000
      THEN <<(IF num < 0 THEN <<"-">> ELSE <<>>) \o Itoa(abs \div 1000)
               \o <<".", DigitChars[(abs % 1000) \div 100 + 1], "k">>,
             Itoa(num)>>
      ELSE <<Itoa(num), Itoa(num)>>

\* utils::time: the relative and the absolute display of a Unix time.
time(unix_time) == <<<<"rel", unix_time>>, <<"abs", unix_time>>>>

\* build_comment panics where it indexes parent_info[1] (line 262): splitting
\* a parent_id without '_' (or a missing one) leaves a single part.
build_comment_panics(comment) ==
  Len(Split(val(comment, "parent_id"), "_")) < 2

\* Mutation: the removed-comment test reads "author deleted or body removed".
comment_body_either(comment, post_link, id, frontend) ==
  IF \/ (val(comment, "author") = DELETED \/ val(comment, "body") = REMOVED)
     \/ val(comment, "body") = REMOVED_BY_REDDIT
  THEN RemovedPlaceholder(IF frontend.some THEN frontend.val ELSE DEFAULT_PUSHSHIFT_FRONTEND,
                          post_link, id)
  ELSE rewrite_emotes(comment.data["media_metadata"], val(comment, "body_html"))

\* The body of build_comment (lines 204 - 211).  `frontend` is the value of
\* get_setting("REDLIB_PUSHSHIFT_FRONTEND"), an Option.
comment_body(comment, post_link, id, frontend) ==
  IF \/ (val(comment, "author") = DELETED /\ val(comment, "body") = REMOVED)
     \/ val(comment, "body") = REMOVED_BY_REDDIT
  THEN RemovedPlaceholder(IF frontend.some THEN frontend.val ELSE DEFAULT_PUSHSHIFT_FRONTEND,
                          post_link, id)
  ELSE rewrite_emotes(comment.data["media_metadata"], val(comment, "body_html"))

\* Mutation: every moderator comment is collapsed, stickied or not.
comment_collapsed_any_moderator(data, is_filtered) ==
  LET is_moderator_comment == as_str(data["distinguished"]) = MODERATOR
  IN  is_moderator_comment \/ is_filtered

\* The collapse heuristic of build_comment (lines 255 - 257).
comment_collapsed(data, is_filtered) ==
  LET is_moderator_comment == as_str(data["distinguished"]) = MODERATOR
      is_stickied == as_bool(data["stickied"])
  IN  (is_moderator_comment /\ is_stickied) \/ is_filtered

\* The pair shown for a hidden score (line 269): the bullet and "Hidden".
HIDDEN_SCORE == <<<<"bullet">>, <<"H", "i", "d", "d", "e", "n">>>>

\* Mutation: the pair is hidden only where there is a score to hide.
comment_score_hidden_if_scored(data) ==
  IF as_bool(data["score_hidden"]) /\ data["score"].t = "int" THEN HIDDEN_SCORE
  ELSE format_num(as_i64(data["score"]))

\* The score pair of build_comment (lines 219, 268 - 272).
comment_score(data) ==
  LET score == as_i64(data["score"])
  IN  IF as_bool(data["score_hidden"]) THEN HIDDEN_SCORE ELSE format_num(score)

\* build_comment, where it does not panic.
build_comment(comment, replies, post_link, post_author, highlighted_comment, filters, frontend) ==
  LET data == comment.data
      id   == val(comment, "id")
      body == comment_body(comment, post_link, id, frontend)
      parent_info == Split(val(comment, "parent_id"), "_")
      author ==
        [name |-> val(comment, "author"),
         flair |-> [flair_parts |-> <<>>, text |-> val(comment, "link_flair_text"),
                    background_color |-> val(comment, "author_flair_background_color"),
                    foreground_color |-> val(comment, "author_flair_text_color")],
         distinguished |-> val(comment, "distinguished")]
      is_filtered == (<<"u", "_">> \o author.name) \in filters
      collapsed == comment_collapsed(data, is_filtered)
  IN  [id          |-> id,
       kind        |-> as_str(comment.kind),
       parent_id   |-> parent_info[2],
       parent_kind |-> parent_info[1],
       post_link   |-> post_link,
       post_author |-> post_author,
       body        |-> body,
       author      |-> author,
       score       |-> comment_score(data),
       rel_time    |-> time(IF is_number(data["created_utc"]) THEN data["created_utc"].v ELSE 0)[1],
       created     |-> time(IF is_number(data["created_utc"]) THEN data["created_utc"].v ELSE 0)[2],
       edited      |-> IF is_number(data["edited"]) THEN time(data["edited"].v) ELSE <<<<>>, <<>>>>,
       replies     |-> replies,
       highlighted |-> id = highlighted_comment,
       awards      |-> <<>>,
       collapsed   |-> collapsed,
       is_filtered |-> is_filtered,
       more_count  |-> as_i64(data["count"])]

RECURSIVE decode_panics(_)
\* Whether parse_comments / query_comments panic on a listing: both call
\* build_comment on every node they reach, replies first.
decode_panics(json) ==
  \E i \in 1..Len(children_of(json)) :
    LET comment == children_of(json)[i]
    IN  \/ is_object(comment.data["replies"]) /\ decode_panics(comment.data["replies"])
        \/ build_comment_panics(comment)

RECURSIVE parse_comments(_, _)
\* Mutation: every Comment is built with an empty reply list.
parse_comments_flat(json, ctx) ==
  [i \in 1..Len(children_of(json)) |->
     build_comment(children_of(json)[i], <<>>, ctx.post_link, ctx.post_author,
                   ctx.highlighted_comment, ctx.filters, ctx.frontend)]

\* parse_comments; ctx holds post_link, post_author, highlighted_comment,
\* filters and the configured frontend.
parse_comments(json, ctx) ==
  [i \in 1..Len(children_of(json)) |->
     LET comment == children_of(json)[i]
         data    == comment.data
         replies == IF is_object(data["replies"]) THEN parse_comments(data["replies"], ctx) ELSE <<>>
     IN  build_comment(comment, replies, ctx.post_link, ctx.post_author,
                       ctx.highlighted_comment, ctx.filters, ctx.frontend)]

\* Mutation: a matching comment is pushed before the matches among its replies.
query_visit_preorder(results, below, c, query) ==
  results \o (IF Contains(to_lowercase(c.body), to_lowercase(query)) THEN <<c>> ELSE <<>>) \o below

\* One turn of the loop of query_comments: the matches among the replies
\* are appended to `results`, then the comment itself if its body matches.
query_visit(results, below, c, query) ==
  results \o below \o (IF Contains(to_lowercase(c.body), to_lowercase(query)) THEN <<c>> ELSE <<>>)

RECURSIVE query_comments(_, _, _)
RECURSIVE query_loop(_, _, _, _)
\* The loop of query_comments: `results` after the first n comments.
query_loop(comments, n, ctx, query) ==
  IF n = 0 THEN <<>>
  ELSE LET comment == comments[n]
           data    == comment.data
           below   == IF is_object(data["replies"]) THEN query_comments(data["replies"], ctx, query)
                      ELSE <<>>
           c == build_comment(comment, <<>>, ctx.post_link, ctx.post_author,
                              ctx.highlighted_comment, ctx.filters, ctx.frontend)
       IN  query_visit(query_loop(comments, n - 1, ctx, query), below, c, query)

\* query_comments
query_comments(json, ctx, query) ==
  query_loop(children_of(json), Len(children_of(json)), ctx, query)

----
\* Query extraction: comment_query (src/post.rs)

Q_MARK == <<"?", "q", "=">>
TYPE_COMMENT == <<"&", "t", "y", "p", "e", "=", "c", "o", "m", "m", "e", "n", "t">>

RECURSIVE Replace(_, _, _)
\* str::replace: every non-overlapping match of pat, left to right.
Replace(s, pat, with) ==
  IF Len(s) = 0 THEN <<>>
  ELSE IF StartsAt(s, pat, 1) THEN with \o Replace(SubSeq(s, Len(pat) + 1, Len(s)), pat, with)
  ELSE <<s[1]>> \o Replace(SubSeq(s, 2, Len(s)), pat, with)

\* Regex::captures of COMMENT_SEARCH_CAPTURE, \?q=(.*)&type=comment: the
\* leftmost "?q=" that is followed by "&type=comment", and, the group being
\* greedy, the text up to the last "&type=comment".  (URLs hold no newline,
\* the one character `.` refuses.)
MatchStarts(url) ==
  {i \in 1..Len(url) :
     StartsAt(url, Q_MARK, i) /\ \E j \in (i + 3)..Len(url) : StartsAt(url, TYPE_COMMENT, j)}
captures(url) ==
  IF MatchStarts(url) = {} THEN None
  ELSE LET i == CHOOSE m \in MatchStarts(url) : \A n \in MatchStarts(url) : m <= n
           j == CHOOSE m \in (i + 3)..Len(url) :
                  /\ StartsAt(url, TYPE_COMMENT, m)
                  /\ \A n \in (m + 1)..Len(url) : ~StartsAt(url, TYPE_COMMENT, n)
       IN  Some(SubSeq(url, i + 3, j - 1))

IsHex(c) == c \in {"0", "1", "2", "3", "4", "5", "6", "7", "8", "9",
                   "A", "B", "C", "D", "E", "F", "a", "b", "c", "d", "e", "f"}

\* The character of a percent-escaped byte, for the bytes the inputs escape;
\* every other byte is one opaque character.
ByteChar(h1, h2) ==
  CASE <<h1, h2>> = <<"2", "0">> -> " "
    [] <<h1, h2>> = <<"2", "5">> -> "%"
    [] <<h1, h2>> = <<"2", "6">> -> "&"
    [] <<h1, h2>> \in {<<"2", "B">>, <<"2", "b">>} -> "+"
    [] <<h1, h2>> \in {<<"3", "D">>, <<"3", "d">>} -> "="
    [] OTHER -> "byte"

RECURSIVE form_decode(_)
\* form_urlencoded's decoding of a name or value: '+' is a space, %XY is the
\* byte XY, a '%' that no two hex digits follow stays.
form_decode(s) ==
  IF Len(s) = 0 THEN <<>>
  ELSE IF s[1] = "+" THEN <<" ">> \o form_decode(SubSeq(s, 2, Len(s)))
  ELSE IF s[1] = "%" /\ Len(s) >= 3 /\ IsHex(s[2]) /\ IsHex(s[3])
       THEN <<ByteChar(s[2], s[3])>> \o form_decode(SubSeq(s, 4, Len(s)))
  ELSE <<s[1]>> \o form_decode(SubSeq(s, 2, Len(s)))

\* url::form_urlencoded::parse: the (name, value) pairs of the non-empty
\* '&'-separated segments, each cut at its first '='.
form_urlencoded_parse(input) ==
  LET segments == SelectSeq(Split(input, "&"), LAMBDA seg : Len(seg) > 0)
  IN  [k \in 1..Len(segments) |->
         LET seg == segments[k]
             eq  == IndexOf(seg, "=")
         IN  IF eq = 0 THEN <<form_decode(seg), <<>>>>
             ELSE <<form_decode(SubSeq(seg, 1, eq - 1)), form_decode(SubSeq(seg, eq + 1, Len(seg)))>>]

\* HashMap::get on the collected pairs: the value of the last pair with the
\* key; None without one.
map_get(pairs, key) ==
  LET hits == {k \in 1..Len(pairs) : pairs[k][1] = key}
  IN  IF hits = {} THEN None
      ELSE Some(pairs[CHOOSE k \in hits : \A m \in hits : m <= k][2])

\* The text comment_query hands to the form parser.
query_body(url) ==
  IF captures(url).some
  THEN Replace(Replace(captures(url).val, <<"%", "2", "0">>, <<" ">>), <<"+">>, <<" ">>)
  ELSE <<>>

\* Mutation: the captured text is returned after the two replacements, with
\* no form decoding.
comment_query_undecoded(url) == Some(query_body(url))

\* comment_query; None stands for the panic of .get("q").unwrap().
comment_query(url) ==
  map_get(form_urlencoded_parse(<<"q", "=">> \o query_body(url) \o TYPE_COMMENT), <<"q">>)

RECURSIVE trim_end_matches(_, _)
\* str::trim_end_matches: the suffix is removed as often as it occurs.
trim_end_matches(s, pat) ==
  IF Len(pat) > 0 /\ Len(s) >= Len(pat) /\ StartsAt(s, pat, Len(s) - Len(pat) + 1)
  THEN trim_end_matches(SubSeq(s, 1, Len(s) - Len(pat)), pat)
  ELSE s

\* url_without_query as PostTemplate::new (line 49) and item (line 111)
\* compute it from the URL and the query.
url_without_query(url, query) == trim_end_matches(url, Q_MARK \o query \o TYPE_COMMENT)

MaxQueryLen == 3
\* Characters of a literal search string: a letter, a space, characters the
\* encoding escapes, and the digits of "%20".
QueryAlphabet == {"a", " ", "+", "&", "%", "2", "0"}

RECURSIVE form_encode(_, _)
\* What a browser submits for a literal: reserved characters escaped, a
\* space as '+' or as "%20".
form_encode(literal, plus) ==
  IF Len(literal) = 0 THEN <<>>
  ELSE (CASE literal[1] = " " -> IF plus THEN <<"+">> ELSE <<"%", "2", "0">>
          [] literal[1] = "+" -> <<"%", "2", "B">>
          [] literal[1] = "&" -> <<"%", "2", "6">>
          [] literal[1] = "%" -> <<"%", "2", "5">>
          [] OTHER -> <<literal[1]>>)
         \o form_encode(SubSeq(literal, 2, Len(literal)), plus)

PagePaths == {<<"/", "r", "/", "p">>, <<"/", "r", "?", "q">>}
\* What may follow the marker.
UrlTails == {<<>>, <<"&", "s", "=", "n">>, TYPE_COMMENT}
\* URLs that carry no marker: no query, "q" without the type, the type
\* without "q", "q" not leading the query string, a misspelt marker.
PlainUrls ==
  {<<"/", "r", "/", "p">>,
   <<"/", "r", "/", "p", "?", "q", "=", "a">>,
   <<"/", "r", "/", "p">> \o TYPE_COMMENT,
   <<"/", "r", "/", "p", "?", "s", "=", "n", "&", "q", "=", "a">> \o TYPE_COMMENT,
   <<"/", "r", "/", "p", "?", "Q", "=", "a">> \o TYPE_COMMENT,
   <<"/", "r", "/", "p", "?", "q", "=", "a", "&", "t", "y", "p", "e", "=", "c">>}

ExtractInit == extract = [pc |-> "idle"]

\* comment_query on the URL of a comment search for a literal, and the
\* url_without_query a PostTemplate gets for that URL and query.
ExtractSearch ==
  /\ extract.pc = "idle"
  /\ \E literal \in StrsUpTo(QueryAlphabet, MaxQueryLen), plus \in BOOLEAN,
        path \in PagePaths, tail \in UrlTails :
       LET url == path \o Q_MARK \o form_encode(literal, plus) \o TYPE_COMMENT \o tail
       IN  extract' = [pc |-> "done", marker |-> TRUE, literal |-> literal, url |-> url,
                       page |-> path, tail |-> tail,
                       result |-> comment_query(url),
                       url_without_query |-> url_without_query(url, comment_query(url).val)]
  /\ UNCHANGED <<identity, archive, live, tree, built, scan, site>>

\* comment_query on a URL without marker.
ExtractPlain ==
  /\ extract.pc = "idle"
  /\ \E url \in PlainUrls :
       extract' = [pc |-> "done", marker |-> FALSE, literal |-> <<>>, url |-> url,
                   page |-> url, tail |-> <<>>,
                   result |-> comment_query(url),
                   url_without_query |-> url_without_query(url, comment_query(url).val)]
  /\ UNCHANGED <<identity, archive, live, tree, built, scan, site>>

ExtractNext == ExtractSearch \/ ExtractPlain

InitExtract ==
  ExtractInit /\ identity = Off /\ archive = Off /\ live = Off /\ tree = Off /\ built = Off
    /\ scan = Off /\ site = Off

SpecExtract == InitExtract /\ [][ExtractNext]_vars

\* C7: comment_query returns the literal search string for every URL with a
\* "?q=<encoded>&type=comment" marker, <encoded> being the literal with spaces
\* as "%20" or '+' and reserved characters percent-escaped; it returns the
\* empty string for every URL without the marker; it never panics.
C7_QueryExtraction ==
  extract.pc = "done" =>
    /\ extract.result.some
    /\ extract.marker => extract.result.val = extract.literal
    /\ ~extract.marker => extract.result.val = <<>>

\* "a%20+" after a path that itself holds "?q", followed by a sort parameter.
C7_Witness ==
  /\ extract.pc = "done" /\ extract.marker
  /\ extract.url = <<"/", "r", "?", "q", "?", "q", "=", "a", "%", "2", "0", "%", "2", "B">>
                     \o TYPE_COMMENT \o <<"&", "s", "=", "n">>
  /\ extract.result = Some(<<"a", " ", "+">>)

----
\* The live path: item (src/post.rs)

MaxLiveNodes == 3

\* The `data` of a comment node of the live listing.
BaseData ==
  [id |-> JStr(<<"1">>), author |-> JStr(<<"a", "l", "i", "c", "e">>), body |-> JStr(<<"N", "a">>),
   body_html |-> JStr(<<"N", "a">>), media_metadata |-> JNull, created_utc |-> JFloat(1600),
   edited |-> JBool(FALSE), score |-> JInt(42), score_hidden |-> JBool(FALSE), count |-> JNull,
   parent_id |-> JStr(<<"t", "3", "_", "p">>), distinguished |-> JNull, stickied |-> JBool(FALSE),
   link_flair_text |-> JNull, author_flair_background_color |-> JNull,
   author_flair_text_color |-> JNull, replies |-> JStr(<<>>)]

\* Kinds of node a listing is made of: an ordinary comment, a comment with
\* an emote, a removed comment, and a node without parent_id.  `leaf` is what
\* the node carries as `replies` when nothing replies to it.
LiveProfiles ==
  {[name |-> "plain", leaf |-> JStr(<<>>), data |-> BaseData, replies |-> <<>>],
   [name |-> "emote", leaf |-> JListing(JNull), replies |-> <<>>,
    data |-> [BaseData EXCEPT !.author = JStr(<<"b", "o", "b">>), !.body = JStr(<<"b", ":">>),
                              !.body_html = JStr(<<"b", ":">>),
                              !.media_metadata = [t |-> "object"]]],
   [name |-> "removed", leaf |-> JListing(JArray(<<>>)), replies |-> <<>>,
    data |-> [BaseData EXCEPT !.author = JStr(DELETED), !.body = JStr(REMOVED),
                              !.body_html = JStr(REMOVED)]],
   [name |-> "orphan", leaf |-> JNull, replies |-> <<>>,
    data |-> [BaseData EXCEPT !.body = JStr(<<"a">>), !.body_html = JStr(<<"a">>),
                              !.parent_id = JNull]]}

RECURSIVE LiveChildren(_, _)
\* The JSON nodes of a forest of profiles; a node's id spells its position
\* ("12" is the second reply to the first comment) and its parent_id names
\* the node above it.
LiveChildren(forest, prefix) ==
  [i \in 1..Len(forest) |->
     LET id == Append(prefix, DigitChars[i + 1])
         p  == forest[i]
     IN  [kind |-> JStr(KindTag("Comment")),
          data |-> [p.data EXCEPT
                      !.id = JStr(id),
                      !.parent_id =
                        IF p.data.parent_id.t # "string" THEN p.data.parent_id
                        ELSE IF prefix = <<>> THEN JStr(<<"t", "3", "_", "p">>)
                        ELSE JStr(<<"t", "1", "_">> \o prefix),
                      !.replies =
                        IF Len(p.replies) = 0 THEN p.leaf
                        ELSE JListing(JArray(LiveChildren(p.replies, id)))]]]

\* response[1], the comment listing of a thread.
LiveListings ==
  {JListing(JArray(LiveChildren(f, <<>>))) : f \in ForestsUpTo(LiveProfiles, MaxLiveNodes)}

\* Request URLs: no search, searches for "a", "NA", "b", and an empty search.
ItemUrls ==
  {<<"/", "r", "/", "p">>} \cup
  {<<"/", "r", "/", "p">> \o Q_MARK \o q \o TYPE_COMMENT :
     q \in {<<"a">>, <<"N", "A">>, <<"b">>, <<>>}}

\* What the request and the fetched post give build_comment: the post's
\* permalink and author, the comment_id parameter, the filters, the setting.
LiveContexts ==
  [post_link : {<<"/", "r", "/", "p", "/">>}, post_author : {<<"a", "l", "i", "c", "e">>},
   highlighted_comment : {<<>>, <<"1">>},
   filters : {{}, {<<"u", "_", "b", "o", "b">>}}, frontend : {None}]

\* Mutation: the mode is chosen by the presence of the marker in the URL.
item_comments_by_marker(url, response, ctx) ==
  IF captures(url).some
  THEN query_comments(response, ctx, comment_query(url).val)
  ELSE parse_comments(response, ctx)

\* The match of item (lines 100 - 105).
item_comments(url, response, ctx) ==
  LET query == comment_query(url).val
  IN  IF query = <<>> THEN parse_comments(response, ctx)
      ELSE query_comments(response, ctx, query)

LiveInit == live = [pc |-> "idle"]

\* item: the fetch fails and an error or quarantine page is sent.
ItemFetchFailed ==
  /\ live.pc = "idle"
  /\ \E url \in ItemUrls, msg \in {"quarantined", "gated", "timeout"} :
       live' = [pc |-> IF msg \in {"quarantined", "gated"} THEN "quarantine" ELSE "error", url |-> url]
  /\ UNCHANGED <<identity, archive, tree, built, extract, scan, site>>

\* item: the post is NSFW and gated; the landing page is sent.
ItemGated ==
  /\ live.pc = "idle"
  /\ \E url \in ItemUrls : live' = [pc |-> "nsfw_landing", url |-> url]
  /\ UNCHANGED <<identity, archive, tree, built, extract, scan, site>>

\* item: the comments are built and the PostTemplate is rendered.
ItemRendered ==
  /\ live.pc = "idle"
  /\ \E url \in ItemUrls, response \in LiveListings, ctx \in LiveContexts :
       IF ~comment_query(url).some \/ decode_panics(response)
       THEN live' = [pc |-> "panicked", url |-> url, response |-> response, ctx |-> ctx]
       ELSE LET query == comment_query(url).val
            IN  live' = [pc |-> "rendered", url |-> url, response |-> response, ctx |-> ctx,
                         comments |-> item_comments(url, response, ctx),
                         url_without_query |-> url_without_query(url, query),
                         single_thread |-> ctx.highlighted_comment # <<>>,
                         comment_query |-> query]
  /\ UNCHANGED <<identity, archive, tree, built, extract, scan, site>>

LiveNext == ItemFetchFailed \/ ItemGated \/ ItemRendered

InitLive ==
  LiveInit /\ identity = Off /\ archive = Off /\ tree = Off /\ built = Off /\ extract = Off
    /\ scan = Off /\ site = Off

SpecLive == InitLive /\ [][LiveNext]_vars

\* C8: item builds the comments in full mode (parse_comments) exactly when the
\* query extracted from the request URL is empty and in query mode
\* (query_comments with that query) exactly when it is not; a URL without
\* the marker gets the full tree.
C8_ModeFollowsQuery ==
  live.pc = "rendered" =>
    /\ live.comment_query = comment_query(live.url).val
    /\ live.comment_query = <<>> => live.comments = parse_comments(live.response, live.ctx)
    /\ live.comment_query # <<>> =>
         live.comments = query_comments(live.response, live.ctx, live.comment_query)
    /\ ~Contains(live.url, Q_MARK) => live.comments = parse_comments(live.response, live.ctx)

\* A search with an empty q: the marker is there, the query is empty, and
\* the nested thread is rendered as a tree.
C8_Witness ==
  /\ live.pc = "rendered"
  /\ live.url = <<"/", "r", "/", "p">> \o Q_MARK \o TYPE_COMMENT
  /\ Len(live.comments) = 1
  /\ Len(live.comments[1].replies) = 2

----
\* The tree query engine applied to a listing: parse_comments, query_comments

\* Queries: empty, matching in another case, matching the placeholder only.
TreeQueries == {<<>>, <<"a">>, <<"N", "A">>, <<"b">>, <<"v", "i", "e", "w">>}

TreeInit == tree = [pc |-> "idle"]

\* parse_comments on a listing.
FullMode ==
  /\ tree.pc = "idle"
  /\ \E json \in LiveListings, ctx \in LiveContexts :
       tree' = IF decode_panics(json) THEN [pc |-> "panicked", mode |-> "full", json |-> json]
               ELSE [pc |-> "done", mode |-> "full", json |-> json, ctx |-> ctx, query |-> <<>>,
                     result |-> parse_comments(json, ctx)]
  /\ UNCHANGED <<identity, archive, live, built, extract, scan, site>>

\* query_comments on a listing.
QueryMode ==
  /\ tree.pc = "idle"
  /\ \E json \in LiveListings, ctx \in LiveContexts, query \in TreeQueries :
       tree' = IF decode_panics(json) THEN [pc |-> "panicked", mode |-> "query", json |-> json]
               ELSE [pc |-> "done", mode |-> "query", json |-> json, ctx |-> ctx, query |-> query,
                     result |-> query_comments(json, ctx, query)]
  /\ UNCHANGED <<identity, archive, live, built, extract, scan, site>>

TreeNext == FullMode \/ QueryMode

InitTree ==
  TreeInit /\ identity = Off /\ archive = Off /\ live = Off /\ built = Off /\ extract = Off
    /\ scan = Off /\ site = Off

SpecTree == InitTree /\ [][TreeNext]_vars

RECURSIVE ListingNodes(_)
\* Every node of a listing, at any depth.
ListingNodes(json) ==
  UNION {{children_of(json)[i]} \cup
           (IF is_object(children_of(json)[i].data["replies"])
            THEN ListingNodes(children_of(json)[i].data["replies"]) ELSE {}) :
         i \in 1..Len(children_of(json))}

\* The decoded body of a node.
DecodedBody(node, ctx) ==
  build_comment(node, <<>>, ctx.post_link, ctx.post_author, ctx.highlighted_comment,
                ctx.filters, ctx.frontend).body

\* For ids that spell positions: a comes before b in post-order, i.e. a is
\* below b, or a branches off to the left of b.
PostOrderBefore(a, b) ==
  \/ Len(b) < Len(a) /\ SubSeq(a, 1, Len(b)) = b
  \/ \E i \in 1..Len(a) :
       /\ i <= Len(b)
       /\ SubSeq(a, 1, i - 1) = SubSeq(b, 1, i - 1)
       /\ DigitVal(a[i]) < DigitVal(b[i])

\* C5: query_comments returns a flat list with exactly one entry for each
\* node, at any depth, whose decoded body contains the query (both
\* lower-cased) and none for any other node; every entry has no children; the
\* order is post-order.  (Listings whose nodes carry a parent fullname.)
C5_QueryModeFlatPostOrder ==
  (tree.pc = "done" /\ tree.mode = "query") =>
    LET R     == tree.result
        nodes == ListingNodes(tree.json)
        hits  == {n \in nodes : Contains(to_lowercase(DecodedBody(n, tree.ctx)),
                                         to_lowercase(tree.query))}
    IN  /\ \A k \in 1..Len(R) : R[k].replies = <<>>
        /\ {R[k].id : k \in 1..Len(R)} = {val(n, "id") : n \in hits}
        /\ \A k \in 1..Len(R) : \A l \in (k + 1)..Len(R) : PostOrderBefore(R[k].id, R[l].id)
        /\ \A k \in 1..Len(R) : \E n \in hits : val(n, "id") = R[k].id /\ R[k].body = DecodedBody(n, tree.ctx)

\* A search for "NA" in a thread of three: the reply matches ("Na"), then
\* its parent; the emote comment does not match and is left out.
C5_Witness ==
  /\ tree.pc = "done" /\ tree.mode = "query"
  /\ tree.query = <<"N", "A">>
  /\ Cardinality(ListingNodes(tree.json)) = 3
  /\ Len(tree.result) = 2
  /\ tree.result[1].id = <<"1", "1">>
  /\ tree.result[2].id = <<"1">>

RECURSIVE PositionsMatchIds(_, _)
\* Every Comment of the forest sits where its id says.
PositionsMatchIds(comments, prefix) ==
  \A i \in 1..Len(comments) :
    /\ comments[i].id = Append(prefix, DigitChars[i + 1])
    /\ PositionsMatchIds(comments[i].replies, comments[i].id)

RECURSIVE ForestSize(_)
\* Number of Comments in a forest.
ForestSize(comments) ==
  IF Len(comments) = 0 THEN 0
  ELSE 1 + ForestSize(comments[1].replies) + ForestSize(SubSeq(comments, 2, Len(comments)))

\* C6: parse_comments returns a forest of the shape of the listing: one
\* Comment per entry of data.children in source order at every level, its
\* children the result for its `replies` (none when `replies` is no object);
\* no node is dropped, duplicated or reordered.  (Listings whose nodes carry
\* a parent fullname.)
C6_FullModeKeepsShape ==
  (tree.pc = "done" /\ tree.mode = "full") =>
    /\ PositionsMatchIds(tree.result, <<>>)
    /\ ForestSize(tree.result) = Cardinality(ListingNodes(tree.json))
    /\ Len(tree.result) = Len(children_of(tree.json))

\* A comment with a reply that has a reply of its own.
C6_Witness ==
  /\ tree.pc = "done" /\ tree.mode = "full"
  /\ Len(tree.result) = 1
  /\ Len(tree.result[1].replies) = 1
  /\ Len(tree.result[1].replies[1].replies) = 1
  /\ tree.result[1].replies[1].replies[1].id = <<"1", "1", "1">>

----
\* build_comment on one node

\* The `data` of one node: author, body, distinguished and stickied present
\* or missing, with and without emotes, parent_id, hidden score, a score
\* that is an integer, a fraction or missing.
NodeData ==
  {[BaseData EXCEPT !.author = a, !.body = b, !.body_html = h[1], !.media_metadata = h[2],
                    !.distinguished = d, !.stickied = st, !.parent_id = pa,
                    !.score_hidden = sh, !.score = sc] :
     a \in {JStr(DELETED), JStr(<<"a", "l", "i", "c", "e">>), JNull},
     b \in {JStr(REMOVED), JStr(REMOVED_BY_REDDIT), JStr(<<"N", "a">>), JNull},
     h \in {<<JStr(<<"N", "a">>), JNull>>, <<JStr(<<"b", ":">>), [t |-> "object"]>>},
     d \in {JStr(MODERATOR), JStr(<<"a", "d", "m", "i", "n">>), JNull},
     st \in {JBool(TRUE), JBool(FALSE), JNull},
     pa \in {JStr(<<"t", "1", "_", "2">>), JNull},
     sh \in {JBool(TRUE), JBool(FALSE), JNull},
     sc \in {JInt(42), JInt(1500), JFloat(15), JNull}}

\* The caller's side: filter sets and the frontend setting.
NodeContexts ==
  [post_link : {<<"/", "r", "/", "p", "/">>}, post_author : {<<"a", "l", "i", "c", "e">>},
   highlighted_comment : {<<"1">>},
   filters : {{}, {<<"u", "_", "a", "l", "i", "c", "e">>}, {<<"u", "_">>},
              {<<"a", "l", "i", "c", "e">>, <<"u", "_">> \o DELETED}},
   frontend : {None, Some(<<"x", ".", "y">>)}]

BuiltInit == built = [pc |-> "idle"]

\* build_comment on a node of the listing.
BuildComment ==
  /\ built.pc = "idle"
  /\ \E data \in NodeData, ctx \in NodeContexts :
       LET comment == [kind |-> JStr(KindTag("Comment")), data |-> data]
       IN  built' =
             IF build_comment_panics(comment)
             THEN [pc |-> "panicked", comment |-> comment, ctx |-> ctx]
             ELSE [pc |-> "built", comment |-> comment, ctx |-> ctx,
                   result |-> build_comment(comment, <<>>, ctx.post_link, ctx.post_author,
                                            ctx.highlighted_comment, ctx.filters, ctx.frontend)]
  /\ UNCHANGED <<identity, archive, live, tree, extract, scan, site>>

BuiltNext == BuildComment

InitBuilt ==
  BuiltInit /\ identity = Off /\ archive = Off /\ live = Off /\ tree = Off /\ extract = Off
    /\ scan = Off /\ site = Off

SpecBuilt == InitBuilt /\ [][BuiltNext]_vars

\* A field of the node as a string: absent and non-string fields read as "".
RawString(field) == IF built.comment.data[field].t = "string" THEN built.comment.data[field].v ELSE <<>>

\* C9: is_filtered is true exactly when the filter set contains "u_" + author
\* name, and collapsed = ((distinguished = "moderator" and stickied) or
\* is_filtered).
C9_FilterAndCollapse ==
  built.pc = "built" =>
    LET r        == built.result
        d        == built.comment.data
        stickied == d.stickied.t = "bool" /\ d.stickied.v
    IN  /\ r.author.name = RawString("author")
        /\ r.is_filtered = ((<<"u", "_">> \o RawString("author")) \in built.ctx.filters)
        /\ r.collapsed = ((RawString("distinguished") = MODERATOR /\ stickied) \/ r.is_filtered)

\* A moderator comment that is neither stickied nor filtered stays open.
C9_Witness ==
  /\ built.pc = "built"
  /\ RawString("distinguished") = MODERATOR
  /\ built.comment.data.stickied = JBool(FALSE)
  /\ built.ctx.filters = {<<"a", "l", "i", "c", "e">>, <<"u", "_">> \o DELETED}
  /\ RawString("author") = <<"a", "l", "i", "c", "e">>
  /\ ~built.result.is_filtered
  /\ ~built.result.collapsed

\* The link of the placeholder: the configured frontend (or the default),
\* the post link and the comment's id.
RemovedLink ==
  <<"h", "t", "t", "p", "s", ":", "/", "/">>
    \o (IF built.ctx.frontend.some THEN built.ctx.frontend.val ELSE DEFAULT_PUSHSHIFT_FRONTEND)
    \o built.ctx.post_link \o RawString("id")

\* C10: the body is the placeholder with the "view removed comment" link
\* (frontend domain, post link, comment id) exactly when (author = "[deleted]"
\* and body = "[removed]") or body = "[ Removed by Reddit ]"; otherwise it
\* is the emote-rewritten body_html and holds no placeholder link (the html
\* of a comment carrying no such link of its own).
C10_RemovedCommentRule ==
  built.pc = "built" =>
    LET removed == \/ (RawString("author") = DELETED /\ RawString("body") = REMOVED)
                   \/ RawString("body") = REMOVED_BY_REDDIT
        body    == built.result.body
    IN  /\ removed =>
             /\ body = RemovedPlaceholder(IF built.ctx.frontend.some THEN built.ctx.frontend.val
                                          ELSE DEFAULT_PUSHSHIFT_FRONTEND,
                                          built.ctx.post_link, RawString("id"))
             /\ Contains(body, RemovedLink) /\ Contains(body, VIEW_REMOVED_COMMENT)
        /\ ~removed =>
             /\ body = rewrite_emotes(built.comment.data.media_metadata, RawString("body_html"))
             /\ ~Contains(body, VIEW_REMOVED_COMMENT)
        /\ removed = Contains(body, RemovedLink)

\* Author "[deleted]" with an ordinary body: the comment keeps its html.
C10_Witness ==
  /\ built.pc = "built"
  /\ RawString("author") = DELETED
  /\ RawString("body") = <<"N", "a">>
  /\ built.comment.data.media_metadata.t = "object"
  /\ built.result.body = <<"b", "<", "i", "m", "g", ">">>

\* C11: a node with score_hidden = true gets the pair (bullet, "Hidden")
\* whatever its score is (an integer, a fraction, missing); a node whose
\* score_hidden is false or absent gets the abbreviated-number pair of its
\* score and never the hidden pair.
C11_HiddenScore ==
  built.pc = "built" =>
    LET d      == built.comment.data
        hidden == d.score_hidden.t = "bool" /\ d.score_hidden.v
        score  == IF d.score.t = "int" THEN d.score.v ELSE 0
    IN  /\ hidden => built.result.score = HIDDEN_SCORE
        /\ ~hidden => /\ built.result.score = format_num(score)
                      /\ built.result.score # HIDDEN_SCORE

\* A hidden score on a node that carries no score at all.
C11_Witness ==
  /\ built.pc = "built"
  /\ built.comment.data.score_hidden = JBool(TRUE)
  /\ built.comment.data.score = JNull
  /\ built.result.score = HIDDEN_SCORE

\* C12: a node whose parent_id is malformed (missing, empty, without '_')
\* does not abort the decode of the thread: parse_comments and
\* query_comments return, nothing panics, and full mode still yields a
\* Comment for every node of the listing.
C12_MalformedParentKeepsThread ==
  tree.pc \in {"done", "panicked"} =>
    /\ tree.pc = "done"
    /\ tree.mode = "full" => ForestSize(tree.result) = Cardinality(ListingNodes(tree.json))

----
\* The static site generator: src/ssg/main.rs, src/ssg/util.rs, src/ssg/writer.rs

\* Position of the last occurrence of character c in s, 0 when absent.
LastIndexOf(s, c) ==
  IF \E i \in 1..Len(s) : s[i] = c
  THEN CHOOSE i \in 1..Len(s) : s[i] = c /\ \A j \in (i + 1)..Len(s) : s[j] # c
  ELSE 0

\* Path::file_name: the last component.
file_name(path) == SubSeq(path, LastIndexOf(path, "/") + 1, Len(path))

\* Path::parent joined with nothing: the path up to its last component.
parent_dir(path) == SubSeq(path, 1, LastIndexOf(path, "/"))

\* The dot that separates stem and extension in a file name: the last one,
\* unless it leads the name; 0 without one.
ExtensionDot(name) == IF LastIndexOf(name, ".") <= 1 THEN 0 ELSE LastIndexOf(name, ".")

\* Path::file_stem
file_stem(path) ==
  LET name == file_name(path)
  IN  IF ExtensionDot(name) = 0 THEN name ELSE SubSeq(name, 1, ExtensionDot(name) - 1)

\* Path::extension; None without one.
extension(path) ==
  LET name == file_name(path)
  IN  IF ExtensionDot(name) = 0 THEN None
      ELSE Some(SubSeq(name, ExtensionDot(name) + 1, Len(name)))

\* Path::join with a relative path.
join(dir, name) == dir \o <<"/">> \o name

\* Path::with_extension: the file name is cut back to its stem, then '.' and
\* the extension are added.
with_extension(path, ext) == parent_dir(path) \o file_stem(path) \o <<".">> \o ext

JSON == <<"j", "s", "o", "n">>
HTML == <<"h", "t", "m", "l">>

\* output_path
output_path(input_path, out_dir, ext) ==
  with_extension(join(out_dir, file_stem(input_path)), ext)

FormatBDFRSelfPost == "BDFRSelfPost"
FormatRedditJson == "RedditJson"
InputFormats == {FormatBDFRSelfPost, FormatRedditJson}

\* config.output
OutDir == <<"o", "u", "t">>
INDEX_HTML == <<"i", "n", "d", "e", "x", ".", "h", "t", "m", "l">>

\* What an input file holds: nothing readable, text that is no JSON, JSON
\* of another shape, or JSON of a SubmissionArchiveEntry.
Unreadable == [kind |-> "unreadable"]
NotJson == [kind |-> "not_json"]
OtherJson == [kind |-> "other_json"]
EntryJson(entry) == [kind |-> "entry", entry |-> entry]

\* The files of a source directory: two of the same name in different
\* directories, names with a dot in their base, one of another name, files
\* that cannot be read or decoded, and an archive holding a reply with a
\* malformed parent id.
SiteFiles ==
  {[path |-> <<"/", "s", "/", "x", "/", "a", ".">> \o JSON,
    content |-> EntryJson([BaseSubmission EXCEPT !.id = "p1"])],
   [path |-> <<"/", "s", "/", "y", "/", "a", ".">> \o JSON,
    content |-> EntryJson([BaseSubmission EXCEPT !.id = "p2", !.comments = <<BaseReply>>])],
   [path |-> <<"/", "s", "/", "a", ".", "b", ".">> \o JSON,
    content |-> EntryJson([BaseSubmission EXCEPT !.id = "p3"])],
   [path |-> <<"/", "s", "/", "a", ".", "c", ".">> \o JSON,
    content |-> EntryJson([BaseSubmission EXCEPT !.id = "p4"])],
   [path |-> <<"/", "s", "/", "f", ".">> \o JSON,
    content |-> EntryJson([BaseSubmission EXCEPT !.id = "p6"])],
   [path |-> <<"/", "s", "/", "b", ".">> \o JSON, content |-> Unreadable],
   [path |-> <<"/", "s", "/", "c", ".">> \o JSON, content |-> NotJson],
   [path |-> <<"/", "s", "/", "d", ".">> \o JSON, content |-> OtherJson],
   [path |-> <<"/", "s", "/", "e", ".">> \o JSON,
    content |-> EntryJson([BaseSubmission EXCEPT
                             !.id = "p5",
                             !.comments = <<[BaseReply EXCEPT !.parent_id = <<"c">>]>>])]}

MaxDocs == 3

RECURSIVE FileSeqs(_)
\* The sequences of n different files.
FileSeqs(n) ==
  IF n = 0 THEN {<<>>}
  ELSE {Append(fs, f) : fs \in FileSeqs(n - 1), f \in SiteFiles} \ 
       {Append(fs, fs[i]) : fs \in {g \in FileSeqs(n - 1) : Len(g) > 0}, i \in 1..(n - 1)}

\* What json_paths_recursive may return: up to MaxDocs files in any order.
SiteInputs == UNION {FileSeqs(n) : n \in 0..MaxDocs}

\* How create_post ends for a file: the `?` of File::open and from_reader
\* (line 185), that of from_value (line 189), the todo!() of line 196, the
\* expect() inside to_comment, or Ok.
create_post_outcome(file, format) ==
  IF file.content.kind \in {"unreadable", "not_json"} THEN "read_error"
  ELSE IF format = FormatRedditJson THEN "todo"
  ELSE IF file.content.kind = "other_json" THEN "schema_error"
  ELSE IF to_comments_panics(file.content.entry.comments) THEN "expect"
  ELSE "ok"

\* The pair create_post returns for a file it decodes: the output path, and
\* the post (its permalink the output file's name) with its comments.  `src`
\* notes the input the pair came from.
create_post(file, out_dir) ==
  LET out_path == output_path(file.path, out_dir, HTML)
      subm     == file.content.entry
  IN  <<out_path, [post     |-> [to_post(subm) EXCEPT !.permalink = file_name(out_path)],
                   comments |-> to_comments(subm.comments),
                   src      |-> file.path]>>

\* HashMap::insert
map_insert(map, k, v) == (k :> v) @@ map

SiteInit == site = [pc |-> "idle"]

\* create_site up to the scan: the source is canonicalized, the output
\* directory is created unless it exists (lines 105 - 113).
Prepare ==
  /\ site.pc = "idle"
  /\ \E format \in InputFormats, files \in SiteInputs, source_exists \in BOOLEAN,
        out_exists \in BOOLEAN :
       site' = [pc      |-> IF source_exists THEN "prepared" ELSE "error",
                error   |-> IF source_exists THEN "none" ELSE "io",
                format  |-> format, files |-> files, paths |-> <<>>, done |-> 0,
                map     |-> <<>>, pending |-> {},
                events  |-> IF source_exists /\ ~out_exists THEN <<<<"mkdir", OutDir>>>> ELSE <<>>]
  /\ UNCHANGED <<identity, archive, live, tree, built, extract, scan>>

\* json_paths_recursive returns the paths of the input files (line 116).
IndexInputs ==
  /\ site.pc = "prepared"
  /\ site' = [site EXCEPT !.pc = "posts", !.paths = site.files,
                          !.events = Append(@, <<"scan">>)]
  /\ UNCHANGED <<identity, archive, live, tree, built, extract, scan>>

\* One turn of the loop of create_posts (lines 164 - 167).
CreatePost ==
  /\ site.pc = "posts"
  /\ site.done < Len(site.paths)
  /\ LET file    == site.paths[site.done + 1]
         outcome == create_post_outcome(file, site.format)
         opened  == Append(site.events, <<"open", file.path>>)
     IN  CASE outcome = "ok" ->
                site' = [site EXCEPT !.done = @ + 1, !.events = opened,
                                     !.map = map_insert(@, create_post(file, OutDir)[1],
                                                        create_post(file, OutDir)[2])]
           [] outcome \in {"read_error", "schema_error"} ->
                \* the `?` of line 165 returns the error; the map is dropped
                site' = [site EXCEPT !.pc = "error", !.error = outcome, !.events = opened,
                                     !.map = <<>>]
           [] OTHER ->
                site' = [site EXCEPT !.pc = "panicked", !.error = outcome, !.events = opened,
                                     !.map = <<>>]
  /\ UNCHANGED <<identity, archive, live, tree, built, extract, scan>>

\* Mutation: the templates are built and written from whatever the loop has
\* decoded so far.
BuildTemplates_early ==
  /\ site.pc = "posts"
  /\ site.done <= Len(site.paths)
  /\ site' = [site EXCEPT !.pc = "templates", !.pending = DOMAIN site.map]
  /\ UNCHANGED <<identity, archive, live, tree, built, extract, scan>>

\* create_posts returns the map; the subreddit page and the post templates
\* are built from it (lines 119 - 130).
BuildTemplates ==
  /\ site.pc = "posts"
  /\ site.done = Len(site.paths)
  /\ site' = [site EXCEPT !.pc = "templates", !.pending = DOMAIN site.map]
  /\ UNCHANGED <<identity, archive, live, tree, built, extract, scan>>

\* write_all: the index is written (writer.rs lines 23 - 24).
WriteIndex ==
  /\ site.pc = "templates"
  /\ site' = [site EXCEPT !.pc = "pages",
                          !.events = Append(@, <<"write", join(OutDir, INDEX_HTML)>>)]
  /\ UNCHANGED <<identity, archive, live, tree, built, extract, scan>>

\* write_templates: one template is written; the map is walked in the
\* order the HashMap gives (writer.rs lines 36 - 38).
WritePage ==
  /\ site.pc = "pages"
  /\ \E path \in site.pending :
       site' = [site EXCEPT !.pending = @ \ {path},
                            !.events = Append(@, <<"write", path>>)]
  /\ UNCHANGED <<identity, archive, live, tree, built, extract, scan>>

\* copy_static: the static files are copied, if the directory they come
\* from is there (writer.rs lines 29 - 30, 43 - 45).
CopyStatic ==
  /\ site.pc = "pages"
  /\ site.pending = {}
  /\ \E static_exists \in BOOLEAN :
       site' = IF static_exists
               THEN [site EXCEPT !.pc = "generated", !.events = Append(@, <<"static">>)]
               ELSE [site EXCEPT !.pc = "error", !.error = "io"]
  /\ UNCHANGED <<identity, archive, live, tree, built, extract, scan>>

SiteNext ==
  Prepare \/ IndexInputs \/ CreatePost \/ BuildTemplates \/ WriteIndex \/ WritePage \/ CopyStatic

InitSite ==
  SiteInit /\ identity = Off /\ archive = Off /\ live = Off /\ tree = Off /\ built = Off
    /\ extract = Off /\ scan = Off

SpecSite == InitSite /\ [][SiteNext]_vars

\* create_posts has ended, with the map or without.
CreatePostsEnded == site.pc \in {"templates", "pages", "generated", "error", "panicked"}

\* C13: in a batch, a file that cannot be read or decoded does not abort
\* its siblings: every file that decodes is in the mapping create_posts
\* returns, wherever the failing file stands in the sequence.
C13_FailureSparesSiblings ==
  (CreatePostsEnded /\ site.format = FormatBDFRSelfPost) =>
    \A i \in 1..Len(site.paths) :
      create_post_outcome(site.paths[i], site.format) = "ok" =>
        output_path(site.paths[i].path, OutDir, HTML) \in DOMAIN site.map

\* C14: with the format RedditJson selected the run reports an
\* unsupported-format error before any processing: the output directory is
\* not created, the input tree is not scanned, no input file is opened, and
\* the run neither panics nor generates a site, whatever the number of
\* input files.
C14_UnsupportedFormatFirst ==
  (site.pc \notin {"off", "idle"} /\ site.format = FormatRedditJson) =>
    /\ site.events = <<>>
    /\ site.pc \notin {"panicked", "generated"}
    /\ site.pc = "error" => site.error \in {"unsupported_format", "io"}

\* The output path the placement rule names for an input: the output
\* directory joined with the input's stem plus '.' and the extension.
StemPlusExtension(input_path) == join(OutDir, file_stem(input_path)) \o <<".">> \o HTML

\* C15: every input is placed at output-directory / (stem + target
\* extension); inputs that share a stem raise no error, and the mapping of
\* create_posts holds one entry per output path, that of the input
\* processed last.
C15_PlacementAndSilentOverwrite ==
  (site.pc = "templates" /\ site.format = FormatBDFRSelfPost) =>
    LET n       == Len(site.paths)
        last(p) == CHOOSE i \in 1..n :
                     /\ StemPlusExtension(site.paths[i].path) = p
                     /\ \A j \in (i + 1)..n : StemPlusExtension(site.paths[j].path) # p
    IN  /\ DOMAIN site.map = {StemPlusExtension(site.paths[i].path) : i \in 1..n}
        /\ \A p \in DOMAIN site.map :
             /\ site.map[p].src = site.paths[last(p)].path
             /\ site.map[p] = create_post(site.paths[last(p)], OutDir)[2]

\* The base of a file name: the name without its final extension ".json".
BaseName(path) == SubSeq(file_name(path), 1, Len(file_name(path)) - Len(JSON) - 1)

\* C17: the output file of an input <base>.json, and the permalink of its
\* Post, is <base>.html, also for a base that holds a '.'; inputs with
\* different base names get different output files.
C17_OnlyFinalExtensionSwapped ==
  (site.pc \in {"posts", "templates"} /\ site.format = FormatBDFRSelfPost) =>
    /\ \A i \in 1..site.done :
         LET out == create_post(site.paths[i], OutDir)
         IN  /\ out[1] = join(OutDir, BaseName(site.paths[i].path) \o <<".">> \o HTML)
             /\ out[2].post.permalink = BaseName(site.paths[i].path) \o <<".">> \o HTML
    /\ \A i, j \in 1..site.done :
         BaseName(site.paths[i].path) # BaseName(site.paths[j].path) =>
           create_post(site.paths[i], OutDir)[1] # create_post(site.paths[j], OutDir)[1]

----
\* The scan of the source directory: json_paths_recursive (src/ssg/main.rs)

\* Path::components: the root of an absolute path, a leading ".", and the
\* names; empty parts and "." inside the path are dropped.
components(path) ==
  LET parts == Split(path, "/")
  IN  (IF Len(path) > 0 /\ path[1] = "/" THEN <<<<"/">>>>
       ELSE IF parts[1] = <<".">> THEN <<<<".">>>>
       ELSE <<>>)
      \o SelectSeq(parts, LAMBDA part : part # <<>> /\ part # <<".">>)

\* Path::starts_with: base is a prefix of the path, component by component.
starts_with(path, base) ==
  /\ Len(components(base)) <= Len(components(path))
  /\ SubSeq(components(path), 1, Len(components(base))) = components(base)

\* canonicalize(&config.source): an absolute path.
SrcPath == <<"/", "s">>

FileEntries ==
  {[name |-> <<"a", ".">> \o JSON, kind |-> "file", entries |-> <<>>],
   [name |-> <<"b", ".", "t", "x", "t">>, kind |-> "file", entries |-> <<>>]}
\* Directory names: plain, hidden, and one that ends in ".json".
DirNames == {<<"d">>, <<".", "h">>, <<"c", ".">> \o JSON}

MaxTreeNodes == 3

RECURSIVE DirEntriesOfSize(_)
\* What read_dir may yield for a directory whose tree holds n files and
\* directories: entries with different names, in any order.
DirEntriesOfSize(n) ==
  IF n = 0 THEN {<<>>}
  ELSE UNION {
         {<<e>> \o rest :
            e \in (IF k = 1 THEN FileEntries ELSE {}) \cup
                  {[name |-> d, kind |-> "dir", entries |-> es] :
                     d \in DirNames, es \in DirEntriesOfSize(k - 1)},
            rest \in DirEntriesOfSize(n - k)} : k \in 1..n}

DistinctNames(entries) ==
  \A i, j \in 1..Len(entries) : i # j => entries[i].name # entries[j].name

\* The contents of the source directory.
SourceTrees ==
  {es \in UNION {DirEntriesOfSize(n) : n \in 0..MaxTreeNodes} : DistinctNames(es)}

RECURSIVE json_paths_recursive(_, _)
RECURSIVE json_paths_loop(_, _, _)
\* The loop of json_paths_recursive: `paths` after the first n entries.
json_paths_loop(path, entries, n) ==
  IF n = 0 THEN <<>>
  ELSE LET entry == join(path, entries[n].name)
           is_dir == entries[n].kind = "dir"
       IN  json_paths_loop(path, entries, n - 1) \o
           (IF is_dir /\ ~starts_with(entry, <<".">>)
            THEN json_paths_recursive(entry, entries[n].entries)
            ELSE IF extension(entry) = Some(JSON) THEN <<entry>>
            ELSE <<>>)

\* json_paths_recursive on a directory that can be read; `entries` is what
\* read_dir yields for it.
json_paths_recursive(path, entries) == json_paths_loop(path, entries, Len(entries))

ScanInit == scan = [pc |-> "idle"]

\* create_site scans the canonicalized source directory (line 116).
ScanSource ==
  /\ scan.pc = "idle"
  /\ \E entries \in SourceTrees :
       scan' = [pc |-> "done", tree |-> entries,
                paths |-> json_paths_recursive(SrcPath, entries)]
  /\ UNCHANGED <<identity, archive, live, tree, built, extract, site>>

ScanNext == ScanSource

InitScan ==
  ScanInit /\ identity = Off /\ archive = Off /\ live = Off /\ tree = Off /\ built = Off
    /\ extract = Off /\ site = Off

SpecScan == InitScan /\ [][ScanNext]_vars

\* A directory whose name begins with '.'.
IsHidden(name) == Len(name) > 0 /\ name[1] = "."

RECURSIVE VisibleJsonFiles(_, _)
\* The files with extension "json" at any depth below `path`, the contents
\* of hidden directories left out.
VisibleJsonFiles(path, entries) ==
  UNION {LET e == entries[i]
         IN  IF e.kind = "dir"
             THEN (IF IsHidden(e.name) THEN {} ELSE VisibleJsonFiles(join(path, e.name), e.entries))
             ELSE (IF extension(e.name) = Some(JSON) THEN {join(path, e.name)} ELSE {}) :
         i \in 1..Len(entries)}

\* C16: json_paths_recursive returns exactly the files with extension
\* "json" at any depth of the source tree that have no hidden directory
\* above them: it never goes into a hidden directory and misses no other
\* file.
C16_ScanSkipsHiddenDirs ==
  scan.pc = "done" =>
    /\ {scan.paths[i] : i \in 1..Len(scan.paths)} = VisibleJsonFiles(SrcPath, scan.tree)
    /\ \A i \in 1..Len(scan.paths) :
         \A k \in 1..Len(components(scan.paths[i])) :
           (Len(components(SrcPath)) < k /\ k < Len(components(scan.paths[i]))) =>
             ~IsHidden(components(scan.paths[i])[k])

\* C18: for a page URL that ends with the search suffix
\* "?q=<encoded>&type=comment", url_without_query is the URL without the
\* suffix and holds no "?q=" marker, whatever the encoded query; for a URL
\* without the suffix it is the URL.
C18_SearchSuffixStripped ==
  extract.pc = "done" =>
    /\ (extract.marker /\ extract.tail = <<>>) =>
         /\ extract.url_without_query = extract.page
         /\ ~Contains(extract.url_without_query, Q_MARK)
    /\ ~extract.marker => extract.url_without_query = extract.url

\* The events that write an output file: the index, a post page, the
\* static files.
IsOutput(event) == event[1] \in {"write", "static"}
IndexWritten == <<"write", join(OutDir, INDEX_HTML)>>

\* C19: create_site writes no output file (index, post page, static file)
\* before every input document has been read and decoded; when a document
\* fails, the run ends without success and without an index or a post page;
\* write_all writes the index before any post page and copies the static
\* files last.
C19_WriteAfterDecodeInOrder ==
  site.pc \notin {"off", "idle"} =>
    LET ev == site.events
    IN  /\ (\E k \in 1..Len(ev) : IsOutput(ev[k])) =>
             /\ site.done = Len(site.paths)
             /\ \A i \in 1..Len(site.paths) :
                  create_post_outcome(site.paths[i], site.format) = "ok"
        /\ (\E i \in 1..Len(site.paths) :
              create_post_outcome(site.paths[i], site.format) # "ok") =>
             /\ site.pc # "generated"
             /\ \A k \in 1..Len(ev) : ~IsOutput(ev[k])
             /\ site.pc \notin {"templates", "pages"}
        /\ \A k \in 1..Len(ev) :
             (ev[k][1] = "write" /\ ev[k] # IndexWritten) =>
               \E j \in 1..(k - 1) : ev[j] = IndexWritten
        /\ \A k \in 1..Len(ev) :
             ev[k] = <<"static">> =>
               /\ k = Len(ev)
               /\ site.pending = {}
               /\ \A p \in DOMAIN site.map : \E j \in 1..(k - 1) : ev[j] = <<"write", p>>

\* A site of two pages has been generated: index, the pages, the static
\* files.
C19_Witness ==
  /\ site.pc = "generated"
  /\ Cardinality(DOMAIN site.map) = 2
  /\ Len(site.events) = 7
  /\ site.events[4] = IndexWritten
  /\ site.events[7] = <<"static">>

====
